---- MODULE Spec2Model ----
(***************************************************************************)
(* Model of the session-managed HTTP transport of the NS MCP server        *)
(* (NSHttpServer, src/unnamed/part_002).                                   *)
(*                                                                         *)
(* The three /mcp route handlers are async functions that run on one event *)
(* loop: the code between two awaits is one atomic step.  Every request is *)
(* a process whose position (pc) is the await it is suspended at.          *)
(*                                                                         *)
(* The route handlers call two collaborators of the protocol SDK: the      *)
(* StreamableHTTPServerTransport (handleRequest, close and the callbacks   *)
(* the route registers on it) and the single protocol Server               *)
(* (server.connect).  Their steps are modelled at the call sites, as the   *)
(* environment of the route handlers: each may succeed, answer with a      *)
(* client error of its own, or throw.                                      *)
(*                                                                         *)
(* Three specifications share the module.  Spec is the /mcp routes.        *)
(* ToolSpec is the list-tools and call-tool handlers with the upstream     *)
(* client (src/src/services/NSApiService.ts).  ShutdownSpec is the routes  *)
(* together with the SIGINT and SIGTERM handlers.  The argument validators *)
(* (types.ts) and the response formatter (utils/ResponseFormatter.ts) are  *)
(* called by the handlers; they are described as the specification of the  *)
(* server states them.                                                     *)
(***************************************************************************)
EXTENDS Integers, FiniteSets, Sequences, TLC

\* ------------------------------------------------------------------ bounds
\* Number of HTTP requests on /mcp that are considered.
MaxReqs == 3
\* Number of distinct identifiers randomUUID() can hand out.
MaxSess == 2

\* ------------------------------------------------------------------ values
\* req.headers['mcp-session-id'].  The routes use the value only for its
\* truthiness and as a key of the session map, so one value, NoHeader, stands
\* for the falsy ones (undefined and the empty string, which is no key of the
\* map).  A client presents an identifier the server has generated or one the
\* server never generates (ForeignId).
NoHeader == 0
SessionIds == 1..MaxSess
ForeignId == MaxSess + 1
HeaderValues == {NoHeader, ForeignId} \cup SessionIds

\* A transport object is named after the request whose handler constructed it.
NoTransport == 0
Reqs == 1..MaxReqs
TransportIds == Reqs

\* transport.sessionId before the transport is initialized (undefined).
NoSession == 0

Methods == {"POST", "GET", "DELETE"}
\* req.body as the routes see it: an initialize request, another JSON-RPC
\* message, or no body (GET, DELETE).
Bodies == {"initialize", "call", "none"}

VARIABLES
    transports,       \* this.transports: Map<string, StreamableHTTPServerTransport>
    tobj,             \* the transport objects constructed so far
    serverTransport,  \* the transport the single protocol Server is connected to
    reqs,             \* the requests: inputs, position, response
    usedIds           \* identifiers randomUUID() has returned

vars == <<transports, tobj, serverTransport, reqs, usedIds>>

\* The tool handlers registered on the protocol Server, and the upstream client.
VARIABLES
    apiKey,           \* NSApiService.apiKey, set once by the constructor
    call,             \* the protocol request being handled by a tool handler
    served            \* protocol requests answered so far

toolVars == <<apiKey, call, served>>

\* The signal handlers of setupErrorHandling.
VARIABLES
    proc,             \* the process: running, exited by process.exit(0), or crashed
    sig               \* the signal handler invocations

procVars == <<proc, sig>>

allVars == <<vars, toolVars, procVars>>

\* ------------------------------------------------------- the route's helpers
\* JavaScript truthiness of `sessionId` (undefined and '' are falsy).
Truthy(h) == h # NoHeader

\* isInitializeRequest(req.body)
IsInitializeRequest(b) == b = "initialize"

\* this.transports.has(sessionId)
MapHas(map, k) == k \in DOMAIN map

\* this.transports.get(sessionId): undefined (NoTransport) for a key not in the map
MapGet(map, k) == IF k \in DOMAIN map THEN map[k] ELSE NoTransport

\* this.transports.set(key, t)
MapSet(map, k, t) == [x \in DOMAIN map \cup {k} |-> IF x = k THEN t ELSE map[x]]

\* Mutant of MapDelete: the delete removes nothing.
MapDeleteKeeps(map, k) == map

\* this.transports.delete(key)
MapDelete(map, k) == [x \in DOMAIN map \ {k} |-> map[x]]

\* Mutant of PostBranch: the create branch does not test !sessionId.
PostBranchAnyHeader(h, b, map) ==
    IF Truthy(h) /\ MapHas(map, h) THEN "reuse"
    ELSE IF IsInitializeRequest(b) THEN "create"
    ELSE "reject"

\* Mutant of PostBranch: the initialize test comes before the map lookup.
PostBranchInitFirst(h, b, map) ==
    IF IsInitializeRequest(b) THEN "create"
    ELSE IF Truthy(h) /\ MapHas(map, h) THEN "reuse"
    ELSE "reject"

\* Mutant of PostBranch: the reuse branch does not look the identifier up.
PostBranchNoLookup(h, b, map) ==
    IF Truthy(h) THEN "reuse"
    ELSE IF IsInitializeRequest(b) THEN "create"
    ELSE "reject"

\* The branch the POST route takes: reuse (74-76), create (77-99), reject (100-103).
PostBranch(h, b, map) ==
    IF Truthy(h) /\ MapHas(map, h) THEN "reuse"
    ELSE IF ~Truthy(h) /\ IsInitializeRequest(b) THEN "create"
    ELSE "reject"

\* Mutant of GuardRejects: the guard does not look the identifier up.
GuardRejectsAbsentOnly(h, map) == ~Truthy(h)

\* Mutant of GuardRejects: && for ||.
GuardRejectsBoth(h, map) == ~Truthy(h) /\ ~MapHas(map, h)

\* The guard of the GET and DELETE routes: !sessionId || !this.transports.has(sessionId)
GuardRejects(h, map) == ~Truthy(h) \/ ~MapHas(map, h)

\* Mutant of RandomUUID: the generator always returns the same identifier.
RandomUUIDConstant(used, map) == {k \in SessionIds : \A j \in SessionIds : k <= j}

\* Mutant of RandomUUID: the identifier is new among the registered sessions only.
RandomUUIDAmongLive(used, map) ==
    LET free == SessionIds \ DOMAIN map
    IN  {k \in free : \A j \in free : k <= j}

\* sessionIdGenerator: () => randomUUID(): an identifier never returned before.
\* Identifiers are opaque and the routes only compare them for equality, so the
\* next unused one stands for any fresh one (requests may name it in advance).
RandomUUID(used, map) ==
    LET fresh == SessionIds \ used
    IN  {k \in fresh : \A j \in fresh : k <= j}

\* Mutant of OnSessionInitialized: the callback does not register the transport.
OnSessionInitializedDropped(map, sid, t) == map

\* Mutant of OnSessionInitialized: the transport is registered under the smallest
\* identifier instead of its own.
OnSessionInitializedFixedKey(map, sid, t) ==
    MapSet(map, CHOOSE k \in SessionIds : \A j \in SessionIds : k <= j, t)

\* onsessioninitialized: this.transports.set(sessionId, transport)
OnSessionInitialized(map, sid, t) == MapSet(map, sid, t)

\* Mutant of OnSessionClosed: the callback clears the whole map.
OnSessionClosedClears(map, sid) == [x \in {} |-> NoTransport]

\* onsessionclosed: this.transports.delete(sessionId)
OnSessionClosed(map, sid) == MapDelete(map, sid)

\* transport.onclose: if (transport.sessionId) this.transports.delete(transport.sessionId)
OnClose(map, sid) == IF sid # NoSession THEN MapDelete(map, sid) ELSE map

\* res.status(code).json(...) in a route handler.  On a response that has not
\* been started it sends the status and the body.  On one whose headers are
\* sent the status line is out already: the write is an error
\* (ERR_HTTP_HEADERS_SENT), thrown out of the handler.
ResStatusJson(q, code) ==
    IF q.headersSent
    THEN [q EXCEPT !.pc = "done", !.lateWrite = TRUE, !.escaped = TRUE]
    ELSE [q EXCEPT !.pc = "done", !.status = code, !.by = "route", !.headersSent = TRUE]

\* The catch clause of a route: a 500 unless the response has been started.
Catch(q) ==
    IF ~q.headersSent
    THEN ResStatusJson(q, 500)
    ELSE [q EXCEPT !.pc = "done"]

\* Mutant of InsideTry: only the POST route has a try block.
InsideTryPostOnly(method) == method = "POST"

\* Whether the awaits of a route (server.connect, transport.handleRequest) are
\* inside its try block: POST 71-107, GET 124-127, DELETE 144-147.
InsideTry(method) == method \in {"POST", "GET", "DELETE"}

\* What the route does with an exception raised while it handles request q.
OnException(q) ==
    IF InsideTry(q.method) THEN Catch(q)
    ELSE [q EXCEPT !.pc = "done", !.escaped = TRUE]

\* An exception is raised in request q; the record keeps whether the response
\* had been started by then.
Raise(q) ==
    OnException([q EXCEPT !.threw = IF q.headersSent THEN "after" ELSE "before"])

\* transport.handleRequest(...) is called on what the map lookup returned:
\* calling it on undefined is a TypeError.
EnterTransport(q, t) ==
    IF t = NoTransport THEN Raise(q)
    ELSE [q EXCEPT !.pc = "handling", !.tr = t]

\* res.status(400) with 'Invalid or missing session ID'
RouteRejects(q) == ResStatusJson(q, 400)

\* ---------------------------------------------------------------- the state
IdleReq ==
    [pc |-> "idle", method |-> "POST", hdr |-> NoHeader, body |-> "none",
     known |-> FALSE, expired |-> FALSE, tr |-> NoTransport, status |-> 0,
     by |-> "none", headersSent |-> FALSE, answer |-> "none",
     threw |-> "no", afterThrow |-> FALSE, escaped |-> FALSE, lateWrite |-> FALSE]

NoObject == [created |-> FALSE, sessionId |-> NoSession, initialized |-> FALSE,
             sessionClosed |-> FALSE, closed |-> FALSE]

Init ==
    /\ transports = [x \in {} |-> NoTransport]
    /\ tobj = [t \in TransportIds |-> NoObject]
    /\ serverTransport = NoTransport
    /\ reqs = [r \in Reqs |-> IdleReq]
    /\ usedIds = {}

\* An exception that leaves a route handler is an unhandled rejection, which
\* ends the process: the listener takes requests only while none has escaped.
ProcessAlive == \A r \in Reqs : ~reqs[r].escaped

\* Requests are numbered in the order they reach the listener.
NextToArrive(r) ==
    /\ ProcessAlive
    /\ reqs[r].pc = "idle"
    /\ \A s \in Reqs : s < r => reqs[s].pc # "idle"

\* The identifiers a client can present when the request arrives.
Presentable == {NoHeader, ForeignId} \cup usedIds

\* The identifiers whose DELETE has been answered by the transport's teardown.
Terminated ==
    {reqs[r].hdr : r \in {x \in Reqs : /\ reqs[x].method = "DELETE"
                                        /\ reqs[x].pc = "done"
                                        /\ reqs[x].status = 200}}

\* The request as it reaches its route; known and expired record what was true
\* of its identifier at that moment, afterThrow whether an earlier request had
\* ended in an exception by then.
Arrived(q, m, h, b) ==
    [q EXCEPT !.method = m, !.hdr = h, !.body = b,
              !.known = h \in DOMAIN transports,
              !.expired = h \in Terminated,
              !.afterThrow = \E s \in Reqs : reqs[s].threw # "no"]

\* The randomUUID() pool of the model is finite: no more transports are
\* constructed than there are identifiers.
PoolLeft == Cardinality({t \in TransportIds : tobj[t].created}) < MaxSess

\* ------------------------------------------------------------ POST /mcp
\* Lines 68-106 up to the first await.
PostArrive(r, h, b) ==
    /\ NextToArrive(r)
    /\ h \in Presentable
    /\ b \in {"initialize", "call"}
    /\ LET q == Arrived(reqs[r], "POST", h, b)
           br == PostBranch(h, b, transports)
       IN  CASE br = "reuse" ->
                  \* transport = this.transports.get(sessionId)!; handleRequest is entered
                  /\ reqs' = [reqs EXCEPT ![r] = EnterTransport(q, MapGet(transports, h))]
                  /\ UNCHANGED <<transports, tobj, serverTransport>>
             [] br = "create" ->
                  \* new StreamableHTTPServerTransport, transport.onclose = ...,
                  \* server.connect(transport) up to its await
                  /\ PoolLeft
                  /\ tobj' = [tobj EXCEPT ![r] = [NoObject EXCEPT !.created = TRUE]]
                  /\ serverTransport' = r
                  /\ reqs' = [reqs EXCEPT ![r] = [q EXCEPT !.pc = "connecting", !.tr = r]]
                  /\ UNCHANGED transports
             [] OTHER ->
                  /\ reqs' = [reqs EXCEPT ![r] = RouteRejects(q)]
                  /\ UNCHANGED <<transports, tobj, serverTransport>>
    /\ UNCHANGED usedIds
    /\ UNCHANGED <<toolVars, procVars>>

\* await this.server.connect(transport) resolves; transport.handleRequest is entered.
ConnectResolves(r) ==
    /\ reqs[r].pc = "connecting"
    /\ reqs' = [reqs EXCEPT ![r].pc = "handling"]
    /\ UNCHANGED <<transports, tobj, serverTransport, usedIds>>
    /\ UNCHANGED <<toolVars, procVars>>

\* await this.server.connect(transport) rejects.
ConnectRejects(r) ==
    /\ reqs[r].pc = "connecting"
    /\ reqs' = [reqs EXCEPT ![r] = Raise(reqs[r])]
    /\ UNCHANGED <<transports, tobj, serverTransport, usedIds>>
    /\ UNCHANGED <<toolVars, procVars>>

\* ------------------------------------------------------------ GET /mcp
\* Lines 116-126 up to the await.
GetArrive(r, h) ==
    /\ NextToArrive(r)
    /\ h \in Presentable
    /\ LET q == Arrived(reqs[r], "GET", h, "none")
       IN  reqs' = [reqs EXCEPT ![r] =
                       IF GuardRejects(h, transports) THEN RouteRejects(q)
                       ELSE EnterTransport(q, MapGet(transports, h))]
    /\ UNCHANGED <<transports, tobj, serverTransport, usedIds>>
    /\ UNCHANGED <<toolVars, procVars>>

\* ------------------------------------------------------------ DELETE /mcp
\* Lines 136-146 up to the await.
DeleteArrive(r, h) ==
    /\ NextToArrive(r)
    /\ h \in Presentable
    /\ LET q == Arrived(reqs[r], "DELETE", h, "none")
       IN  reqs' = [reqs EXCEPT ![r] =
                       IF GuardRejects(h, transports) THEN RouteRejects(q)
                       ELSE EnterTransport(q, MapGet(transports, h))]
    /\ UNCHANGED <<transports, tobj, serverTransport, usedIds>>
    /\ UNCHANGED <<toolVars, procVars>>

\* ------------------------------------------- transport.handleRequest (SDK)
InTransport(r) == reqs[r].pc \in {"handling", "accepted", "closing"}

\* transport.handleRequest throws (its promise rejects) before the response is
\* started: the route's catch runs.
TransportThrows(r) ==
    /\ InTransport(r)
    /\ reqs' = [reqs EXCEPT ![r] = Raise(reqs[r])]
    /\ UNCHANGED <<transports, tobj, serverTransport, usedIds>>
    /\ UNCHANGED <<toolVars, procVars>>

\* The transport answers with a client error of its own (a header it does not
\* accept, an initialize request on a session that is already initialized).
TransportRejects(r) ==
    /\ reqs[r].pc = "handling"
    /\ reqs' = [reqs EXCEPT ![r] = [@ EXCEPT !.pc = "done", !.status = 400,
                                            !.by = "transport", !.headersSent = TRUE]]
    /\ UNCHANGED <<transports, tobj, serverTransport, usedIds>>
    /\ UNCHANGED <<toolVars, procVars>>

\* An initialize request on a fresh transport: the transport takes its identifier
\* from sessionIdGenerator and calls onsessioninitialized.
TransportInitialize(r) ==
    /\ reqs[r].pc = "handling"
    /\ reqs[r].method = "POST"
    /\ IsInitializeRequest(reqs[r].body)
    /\ LET t == reqs[r].tr
       IN  /\ ~tobj[t].initialized
           /\ \E sid \in RandomUUID(usedIds, transports) :
                /\ usedIds' = usedIds \cup {sid}
                /\ tobj' = [tobj EXCEPT ![t].sessionId = sid, ![t].initialized = TRUE]
                /\ transports' = OnSessionInitialized(transports, sid, t)
    /\ reqs' = [reqs EXCEPT ![r].pc = "accepted"]
    /\ UNCHANGED serverTransport
    /\ UNCHANGED <<toolVars, procVars>>

\* Another message on an initialized session, whose header names the transport.
TransportValidates(r) ==
    /\ reqs[r].pc = "handling"
    /\ reqs[r].method = "POST"
    /\ ~IsInitializeRequest(reqs[r].body)
    /\ LET t == reqs[r].tr
       IN  tobj[t].initialized /\ tobj[t].sessionId = reqs[r].hdr
    /\ reqs' = [reqs EXCEPT ![r].pc = "accepted"]
    /\ UNCHANGED <<transports, tobj, serverTransport, usedIds>>
    /\ UNCHANGED <<toolVars, procVars>>

\* The single protocol Server keeps one transport, the last one connected, and
\* answers a message through the transport it holds when the message is handed
\* to it: the answer reaches the request only if that is the transport the
\* request came in on.
ServerAnswer(current, own) == IF current = own THEN "own" ELSE "lost"

\* The transport has started the response (200) and handed the message over.
Dispatched(q) ==
    [q EXCEPT !.status = 200, !.by = "transport", !.headersSent = TRUE,
              !.answer = ServerAnswer(serverTransport, q.tr)]

\* handleRequest starts the response, hands the message to the Server and returns.
TransportDispatch(r) ==
    /\ reqs[r].pc = "accepted"
    /\ reqs' = [reqs EXCEPT ![r] = [Dispatched(reqs[r]) EXCEPT !.pc = "done"]]
    /\ UNCHANGED <<transports, tobj, serverTransport, usedIds>>
    /\ UNCHANGED <<toolVars, procVars>>

\* handleRequest starts the response and then throws: the route's catch runs on
\* a response whose headers are sent.
TransportThrowsLate(r) ==
    /\ reqs[r].pc = "accepted"
    /\ reqs' = [reqs EXCEPT ![r] = Raise(Dispatched(reqs[r]))]
    /\ UNCHANGED <<transports, tobj, serverTransport, usedIds>>
    /\ UNCHANGED <<toolVars, procVars>>

\* GET on a known session: the transport opens the server-to-client stream.
TransportOpensStream(r) ==
    /\ reqs[r].pc = "handling"
    /\ reqs[r].method = "GET"
    /\ reqs' = [reqs EXCEPT ![r] = [@ EXCEPT !.pc = "done", !.status = 200,
                                            !.by = "transport", !.headersSent = TRUE]]
    /\ UNCHANGED <<transports, tobj, serverTransport, usedIds>>
    /\ UNCHANGED <<toolVars, procVars>>

\* DELETE on a known session, first part of the teardown: onsessionclosed.
TransportSessionClosed(r) ==
    /\ reqs[r].pc = "handling"
    /\ reqs[r].method = "DELETE"
    /\ LET t == reqs[r].tr
       IN  /\ transports' = OnSessionClosed(transports, tobj[t].sessionId)
           /\ tobj' = [tobj EXCEPT ![t].sessionClosed = TRUE]
    /\ reqs' = [reqs EXCEPT ![r].pc = "closing"]
    /\ UNCHANGED <<serverTransport, usedIds>>
    /\ UNCHANGED <<toolVars, procVars>>

\* DELETE, second part: transport.close() fires onclose (the route's handler,
\* then the Server's, which forgets its transport), and the 200 is written.
TransportClose(r) ==
    /\ reqs[r].pc = "closing"
    /\ LET t == reqs[r].tr
       IN  /\ transports' = OnClose(transports, tobj[t].sessionId)
           /\ tobj' = [tobj EXCEPT ![t].closed = TRUE]
           /\ serverTransport' = NoTransport
    /\ reqs' = [reqs EXCEPT ![r] = [@ EXCEPT !.pc = "done", !.status = 200,
                                            !.by = "transport", !.headersSent = TRUE]]
    /\ UNCHANGED usedIds
    /\ UNCHANGED <<toolVars, procVars>>

\* ==================================================== the tool handlers
\* setupToolHandlers (178-510) registers two handlers on the protocol Server:
\* list tools and call tool.  The call-tool handler has one await, on the
\* upstream client (NSApiService); what it runs before and after that await is
\* one step each.  The handlers keep no state between requests (the upstream
\* client holds the key and the axios instance only), so the requests are taken
\* one after the other; `call` is the request being handled.

\* ------------------------------------------------------------------ bounds
\* Number of protocol requests (list tools, call tool) that are considered.
MaxCalls == 2
\* Number of properties an argument bag carries at most.
MaxArgs == 2

\* ------------------------------------------------------------------ values
\* config.nsApiKey as the constructor receives it: empty when NS_API_KEY is unset.
NoKey == ""
SomeKey == "key"

\* Mutant of Catalog: an entry repeats the name of another.
CatalogRepeated ==
    <<"get_disruptions", "get_travel_advice", "get_departures", "get_ovfiets",
      "get_station_info", "get_current_time_in_rfc3339", "get_departures",
      "get_prices">>

\* The names of the tools array the list-tools handler returns, in its order.
Catalog ==
    <<"get_disruptions", "get_travel_advice", "get_departures", "get_ovfiets",
      "get_station_info", "get_current_time_in_rfc3339", "get_arrivals",
      "get_prices">>

\* Mutant of Cases: the switch has no case for get_arrivals.
CasesWithoutArrivals ==
    {"get_disruptions", "get_travel_advice", "get_departures", "get_ovfiets",
     "get_station_info", "get_current_time_in_rfc3339", "get_prices"}

\* The case labels of the switch on request.params.name.
Cases ==
    {"get_disruptions", "get_travel_advice", "get_departures", "get_ovfiets",
     "get_station_info", "get_current_time_in_rfc3339", "get_arrivals",
     "get_prices"}

\* A name that is no case label.
UnknownTool == "get_weather"

\* request.params.name as a client can send it.
ToolInputs == Cases \cup {Catalog[i] : i \in 1..Len(Catalog)} \cup {UnknownTool}

\* inputSchema.properties of each tool of the catalog.
Properties(name) ==
    CASE name = "get_disruptions" -> {"isActive", "type"}
      [] name = "get_travel_advice" ->
            {"fromStation", "toStation", "dateTime", "searchForArrival"}
      [] name \in {"get_departures", "get_arrivals"} ->
            {"station", "uicCode", "dateTime", "maxJourneys", "lang"}
      [] name = "get_ovfiets" -> {"stationCode"}
      [] name = "get_station_info" ->
            {"query", "includeNonPlannableStations", "limit"}
      [] name = "get_prices" ->
            {"fromStation", "toStation", "travelClass", "travelType",
             "isJointJourney", "adults", "children", "routeId",
             "plannedDepartureTime", "plannedArrivalTime"}
      [] OTHER -> {}

\* inputSchema.required of each tool.
Required(name) ==
    CASE name \in {"get_travel_advice", "get_prices"} -> {"fromStation", "toStation"}
      [] name = "get_ovfiets" -> {"stationCode"}
      [] name = "get_station_info" -> {"query"}
      [] OTHER -> {}

\* inputSchema.oneOf of each tool: the properties one of which is required.
OneOf(name) ==
    IF name \in {"get_departures", "get_arrivals"} THEN {"station", "uicCode"} ELSE {}

\* request.params.arguments: absent, or an object.  An object is described by
\* the properties it carries and by which of them hold a value their declared
\* type, enumeration or range does not admit.
NoArguments == [given |-> FALSE, present |-> {}, bad |-> {}]
EmptyBag == [given |-> TRUE, present |-> {}, bad |-> {}]

\* The properties a client sends for a tool: those its schema declares, or,
\* for a name with none, one the server does not know.
BagFields(name) == IF Properties(name) = {} THEN {"extra"} ELSE Properties(name)

\* const rawArgs = request.params.arguments || {}
RawArgs(a) == IF a.given THEN a ELSE EmptyBag

\* The validators of types.ts (isValidDisruptionsArgs, ...): required
\* properties present, one of the alternatives present, and every property
\* that is present of its declared type, enumeration and range.
IsValidArgs(name, a) ==
    /\ Required(name) \subseteq a.present
    /\ OneOf(name) # {} => OneOf(name) \cap a.present # {}
    /\ a.bad = {}

\* Mutant of RejectsArgs: the result of the validator is ignored.
RejectsArgsNever(name, a) == FALSE

\* if (!isValidXArgs(rawArgs)) throw ...
RejectsArgs(name, a) == ~IsValidArgs(name, a)

\* Mutant of Branch: the switch has no default, an unmatched name runs the
\* first case.
BranchNoDefault(name) == IF name \in Cases THEN name ELSE "get_disruptions"

\* switch (request.params.name): the case that runs.
Branch(name) == IF name \in Cases THEN name ELSE "default"

\* Mutant of CallsUpstream: the clock tool goes through the upstream client too.
CallsUpstreamAlways(branch) == branch # "default"

\* The cases that validate the arguments and call the upstream client; the
\* case of get_current_time_in_rfc3339 does neither.
CallsUpstream(branch) == branch \notin {"default", "get_current_time_in_rfc3339"}

\* ------------------------------------------------------- ResponseFormatter
\* ResponseFormatter.createMcpError(code, message)
CreateMcpError(code, about) == [type |-> "McpError", code |-> code, about |-> about]

\* new Error('NS_API_KEY is not configured. ...')
ConfigurationError == [type |-> "Error", code |-> "none", about |-> "NS_API_KEY"]

\* The rejection of axiosInstance.get: a non-2xx response, or no response.
AxiosError(kind) == [type |-> "AxiosError", code |-> "none", about |-> kind]

\* ResponseFormatter.formatSuccess(data): the envelope around the payload.
FormatSuccess(payload) ==
    [kind |-> "success", code |-> "none", about |-> "none", payload |-> payload]

NoPayload == [none |-> TRUE]

\* ResponseFormatter.formatError(error): a protocol error keeps its code, any
\* other failure is an internal error; the message is that of the failure.
FormatError(e) ==
    [kind |-> "error",
     code |-> IF e.type = "McpError" THEN e.code ELSE "InternalError",
     about |-> e.about, payload |-> NoPayload]

NoResult == [kind |-> "none", code |-> "none", about |-> "none", payload |-> NoPayload]

\* { datetime: now.toISOString(), timezone: 'Europe/Amsterdam' }
TimePayload == [datetime |-> "toISOString", timezone |-> "Europe/Amsterdam"]

\* response.data of the upstream endpoint of a tool.
UpstreamData(name) == [data |-> name]

\* ------------------------------------------------------------ NSApiService
\* Mutant of EnsureApiKeyConfigured: the check is skipped.
EnsureApiKeyConfiguredSkipped(key) == TRUE

\* ensureApiKeyConfigured(), the first statement of every method: it returns
\* when this.apiKey is not empty (TRUE) and throws when it is (FALSE).
EnsureApiKeyConfigured(key) == key # NoKey

\* The properties of args each method copies into the params of its GET
\* (getOVFiets sends stationCode as station_code, getStationInfo query as q).
ServiceReads(name) ==
    CASE name = "get_disruptions" -> {"isActive", "type"}
      [] name = "get_travel_advice" ->
            {"fromStation", "toStation", "dateTime", "searchForArrival"}
      [] name = "get_departures" -> {"station", "dateTime", "maxJourneys", "lang"}
      [] name = "get_ovfiets" -> {"stationCode"}
      [] name = "get_station_info" ->
            {"query", "includeNonPlannableStations", "limit"}
      [] name = "get_arrivals" ->
            {"station", "uicCode", "dateTime", "maxJourneys", "lang"}
      [] name = "get_prices" ->
            {"fromStation", "toStation", "travelClass", "travelType",
             "isJointJourney", "adults", "children", "routeId",
             "plannedDepartureTime", "plannedArrivalTime"}
      [] OTHER -> {}

\* The params a method gives a value when args has none (args.x ?? default).
Defaulted(name) ==
    IF name = "get_station_info" THEN {"includeNonPlannableStations", "limit"} ELSE {}

\* The query parameters of the GET: a param whose value is undefined is left
\* out of the URL.
QueryParams(name, a) == (ServiceReads(name) \cap a.present) \cup Defaulted(name)

\* ------------------------------------------------------ the call-tool handler
IdleCall ==
    [pc |-> "idle", kind |-> "none", name |-> "none", args |-> NoArguments,
     stages |-> <<>>, validatorRan |-> FALSE, accepted |-> FALSE,
     invoked |-> FALSE, gets |-> 0, query |-> {}, failure |-> "none",
     result |-> NoResult, tools |-> <<>>, threw |-> FALSE]

\* Mutant of ThrowSiteInsideTry: the switch's default is outside the try block.
ThrowSiteInsideTryCasesOnly(site) == site \in {"validate", "invoke"}

\* The throw sites of the handler that are inside its try block (413-506): the
\* default of the switch, the validators' rejections, the upstream client.
ThrowSiteInsideTry(site) == site \in {"default", "validate", "invoke"}

\* An error is thrown at a site of the handler: inside the try it is caught and
\* formatted (506-508), outside it leaves the handler.
Throw(c, site, e) ==
    IF ThrowSiteInsideTry(site)
    THEN [c EXCEPT !.pc = "done", !.stages = @ \o <<"Reject", "Respond">>,
                   !.result = FormatError(e)]
    ELSE [c EXCEPT !.pc = "done", !.threw = TRUE]

\* return ResponseFormatter.formatSuccess(data)
Return(c, payload) ==
    [c EXCEPT !.pc = "done", !.stages = @ \o <<"Format", "Respond">>,
              !.result = FormatSuccess(payload)]

\* this.nsApiService.getX(rawArgs) up to its await: the credential check, then
\* the GET is issued.
Invoke(c, name, a) ==
    LET d == [c EXCEPT !.invoked = TRUE, !.stages = Append(@, "Invoke")]
    IN  IF ~EnsureApiKeyConfigured(apiKey)
        THEN Throw(d, "invoke", ConfigurationError)
        ELSE [d EXCEPT !.pc = "awaiting", !.gets = @ + 1,
                       !.query = QueryParams(name, a)]

\* The handler from its entry to its first await or its return.
Handle(c) ==
    LET br == Branch(c.name)
        a == RawArgs(c.args)
        i == [c EXCEPT !.stages = <<"Receive", "Identify">>]
    IN  IF br = "default"
        THEN Throw(i, "default", CreateMcpError("MethodNotFound", c.name))
        ELSE IF ~CallsUpstream(br)
        THEN Return(i, TimePayload)
        ELSE LET v == [i EXCEPT !.validatorRan = TRUE,
                                !.accepted = IsValidArgs(br, a),
                                !.stages = Append(@, "Validate")]
             IN  IF RejectsArgs(br, a)
                 THEN Throw(v, "validate", CreateMcpError("InvalidParams", br))
                 ELSE Invoke(v, br, a)

\* Mutant of OnUpstreamFailure: a failed GET is issued once more.
OnUpstreamFailureRetry(c, e) ==
    IF c.gets < 2 THEN [c EXCEPT !.gets = @ + 1] ELSE Throw(c, "invoke", e)

\* The awaited GET rejects: the method has no catch, the rejection is thrown
\* at the handler's await.
OnUpstreamFailure(c, e) == Throw(c, "invoke", e)

\* The argument bags a client sends with a tool name.
Bags(name) ==
    {NoArguments} \cup
    UNION {{[given |-> TRUE, present |-> p, bad |-> b] : b \in SUBSET p} :
             p \in {x \in SUBSET BagFields(name) : Cardinality(x) <= MaxArgs}}

\* The Server hands over the next request when the one before is answered.
Free == call.pc = "idle" /\ served < MaxCalls

\* A call-tool request arrives (410-412) and runs to its await or its return.
CallTool(name, a) ==
    /\ Free
    /\ call' = Handle([IdleCall EXCEPT !.kind = "call", !.name = name, !.args = a])
    /\ served' = served + 1
    /\ UNCHANGED <<apiKey, vars, procVars>>

\* The upstream GET resolves: return response.data, formatSuccess(data).
UpstreamResolves ==
    /\ call.pc = "awaiting"
    /\ call' = Return(call, UpstreamData(call.name))
    /\ UNCHANGED <<apiKey, served, vars, procVars>>

\* The upstream GET rejects: a non-2xx response ("http") or no response ("network").
UpstreamFails(kind) ==
    /\ call.pc = "awaiting"
    /\ kind \in {"http", "network"}
    /\ call' = OnUpstreamFailure([call EXCEPT !.failure = kind], AxiosError(kind))
    /\ UNCHANGED <<apiKey, served, vars, procVars>>

\* A list-tools request: the handler returns the catalog (179-408).
ListTools ==
    /\ Free
    /\ call' = [IdleCall EXCEPT !.kind = "list", !.pc = "done", !.tools = Catalog,
                                !.stages = <<"Receive", "Respond">>]
    /\ served' = served + 1
    /\ UNCHANGED <<apiKey, vars, procVars>>

\* The Server sends what the handler returned (or the error it threw) as the
\* response of the request; the handler's invocation is over.
Answered ==
    /\ call.pc = "done"
    /\ call' = IdleCall
    /\ UNCHANGED <<apiKey, served, vars, procVars>>

\* The tool handlers before the first protocol request, with a key configured.
ToolsIdle == apiKey = SomeKey /\ call = IdleCall /\ served = 0

\* ==================================================== the signal handlers
\* setupErrorHandling (156-172): process.on('SIGINT') and process.on('SIGTERM')
\* register the same async handler, one for each of the two signals; each
\* signal is delivered at most once.

\* ------------------------------------------------------------------ bounds
\* Number of /mcp requests taken while the signal handlers are considered.
MaxShutdownReqs == 2

SignalNames == {"SIGINT", "SIGTERM"}

IdleSig == [pc |-> "idle", closeCalled |-> FALSE, closeDone |-> FALSE]

\* No signal has been delivered.
ProcIdle == proc = "running" /\ sig = [n \in SignalNames |-> IdleSig]


\* ------------------------------------------------------------ specification
Next ==
    \/ \E r \in Reqs, h \in HeaderValues, b \in Bodies : PostArrive(r, h, b)
    \/ \E r \in Reqs, h \in HeaderValues : GetArrive(r, h)
    \/ \E r \in Reqs, h \in HeaderValues : DeleteArrive(r, h)
    \/ \E r \in Reqs : ConnectResolves(r)
    \/ \E r \in Reqs : ConnectRejects(r)
    \/ \E r \in Reqs : TransportThrows(r)
    \/ \E r \in Reqs : TransportRejects(r)
    \/ \E r \in Reqs : TransportInitialize(r)
    \/ \E r \in Reqs : TransportValidates(r)
    \/ \E r \in Reqs : TransportDispatch(r)
    \/ \E r \in Reqs : TransportThrowsLate(r)
    \/ \E r \in Reqs : TransportOpensStream(r)
    \/ \E r \in Reqs : TransportSessionClosed(r)
    \/ \E r \in Reqs : TransportClose(r)

\* The state after construction: no request, no protocol request, no signal.
Constructed == Init /\ ToolsIdle /\ ProcIdle

Spec == Constructed /\ [][Next]_allVars

\* The tool handlers, under either configuration of the key.
ToolInit ==
    /\ Init
    /\ ProcIdle
    /\ apiKey \in {NoKey, SomeKey}
    /\ call = IdleCall
    /\ served = 0

ToolNext ==
    \/ \E name \in ToolInputs : \E a \in Bags(name) : CallTool(name, a)
    \/ UpstreamResolves
    \/ \E kind \in {"http", "network"} : UpstreamFails(kind)
    \/ ListTools
    \/ Answered

ToolSpec == ToolInit /\ [][ToolNext]_allVars

\* ------------------------------------------------------- SIGINT and SIGTERM
\* Mutant of OnSignal: server.close() is not awaited, process.exit(0) runs at once.
OnSignalNoAwait(h) == [h EXCEPT !.pc = "exited", !.closeCalled = TRUE]

\* The handler up to its await: console.log, then this.server.close() is called.
OnSignal(h) == [h EXCEPT !.pc = "closing", !.closeCalled = TRUE]

\* process.exit(0) has run in a handler.
Exited(s) == IF \E n \in SignalNames : s[n].pc = "exited" THEN "exited" ELSE "running"

\* A signal is delivered.  server.close() closes the transport the Server is
\* connected to, if any: the transport's onclose runs the route's handler
\* (92-96) and then the Server's, which forgets the transport.
SignalArrives(s) ==
    /\ proc = "running"
    /\ sig[s].pc = "idle"
    /\ sig' = [sig EXCEPT ![s] = OnSignal(sig[s])]
    /\ proc' = Exited(sig')
    /\ IF serverTransport # NoTransport
       THEN /\ transports' = OnClose(transports, tobj[serverTransport].sessionId)
            /\ tobj' = [tobj EXCEPT ![serverTransport].closed = TRUE]
            /\ serverTransport' = NoTransport
       ELSE UNCHANGED <<transports, tobj, serverTransport>>
    /\ UNCHANGED <<reqs, usedIds, toolVars>>

\* await this.server.close() resolves; process.exit(0).
CloseResolves(s) ==
    /\ proc = "running"
    /\ sig[s].pc = "closing"
    /\ sig' = [sig EXCEPT ![s] = [@ EXCEPT !.pc = "exited", !.closeDone = TRUE]]
    /\ proc' = "exited"
    /\ UNCHANGED <<vars, toolVars>>

\* await this.server.close() rejects: the handler has no catch, the unhandled
\* rejection ends the process without process.exit(0).
CloseRejects(s) ==
    /\ proc = "running"
    /\ sig[s].pc = "closing"
    /\ sig' = [sig EXCEPT ![s].pc = "failed"]
    /\ proc' = "crashed"
    /\ UNCHANGED <<vars, toolVars>>

\* The /mcp routes go on while the process runs.
RoutesStep ==
    /\ proc = "running"
    /\ Next
    /\ Cardinality({r \in Reqs : reqs'[r].pc # "idle"}) <= MaxShutdownReqs

ShutdownNext ==
    \/ RoutesStep
    \/ \E s \in SignalNames : SignalArrives(s)
    \/ \E s \in SignalNames : CloseResolves(s)
    \/ \E s \in SignalNames : CloseRejects(s)

ShutdownSpec == Constructed /\ [][ShutdownNext]_allVars

\* =========================================== the per-request-transport server
\* The earlier http-server.ts (src/unnamed/part_001) has one route, POST /mcp
\* (65-77): it constructs a transport for every request, connects the single
\* Server to it and hands the request over, all inside one try.  It keeps no
\* session map.

\* The catch clause of that route (73-76): the 500 is written whatever the
\* state of the response.
PerRequestCatch(q) == ResStatusJson(q, 500)

\* An exception is raised while the route handles request q.
PerRequestRaise(q) ==
    PerRequestCatch([q EXCEPT !.threw = IF q.headersSent THEN "after" ELSE "before"])

\* Lines 65-71 up to the first await: new StreamableHTTPServerTransport with
\* the header as its sessionId, server.connect(transport).
PerRequestPostArrive(r, h, b) ==
    /\ NextToArrive(r)
    /\ h \in {NoHeader, ForeignId}
    /\ b \in {"initialize", "call"}
    /\ tobj' = [tobj EXCEPT ![r] = [NoObject EXCEPT !.created = TRUE, !.sessionId = h]]
    /\ serverTransport' = r
    /\ reqs' = [reqs EXCEPT ![r] =
                   [Arrived(reqs[r], "POST", h, b) EXCEPT !.pc = "connecting", !.tr = r]]
    /\ UNCHANGED <<transports, usedIds, toolVars, procVars>>

\* await this.server.connect(transport) resolves; transport.handleRequest is entered.
PerRequestConnectResolves(r) ==
    /\ reqs[r].pc = "connecting"
    /\ reqs' = [reqs EXCEPT ![r].pc = "handling"]
    /\ UNCHANGED <<transports, tobj, serverTransport, usedIds, toolVars, procVars>>

\* await this.server.connect(transport) rejects.
PerRequestConnectRejects(r) ==
    /\ reqs[r].pc = "connecting"
    /\ reqs' = [reqs EXCEPT ![r] = PerRequestRaise(reqs[r])]
    /\ UNCHANGED <<transports, tobj, serverTransport, usedIds, toolVars, procVars>>

\* transport.handleRequest throws before the response is started.
PerRequestTransportThrows(r) ==
    /\ reqs[r].pc = "handling"
    /\ reqs' = [reqs EXCEPT ![r] = PerRequestRaise(reqs[r])]
    /\ UNCHANGED <<transports, tobj, serverTransport, usedIds, toolVars, procVars>>

\* The transport answers with a client error of its own.
PerRequestTransportRejects(r) ==
    /\ reqs[r].pc = "handling"
    /\ reqs' = [reqs EXCEPT ![r] = [@ EXCEPT !.pc = "done", !.status = 400,
                                            !.by = "transport", !.headersSent = TRUE]]
    /\ UNCHANGED <<transports, tobj, serverTransport, usedIds, toolVars, procVars>>

\* handleRequest starts the response, hands the message to the Server and returns.
PerRequestTransportDispatch(r) ==
    /\ reqs[r].pc = "handling"
    /\ reqs' = [reqs EXCEPT ![r] = [Dispatched(reqs[r]) EXCEPT !.pc = "done"]]
    /\ UNCHANGED <<transports, tobj, serverTransport, usedIds, toolVars, procVars>>

\* handleRequest starts the response and then throws: the catch runs on a
\* response whose headers are sent.
PerRequestTransportThrowsLate(r) ==
    /\ reqs[r].pc = "handling"
    /\ reqs' = [reqs EXCEPT ![r] = PerRequestRaise(Dispatched(reqs[r]))]
    /\ UNCHANGED <<transports, tobj, serverTransport, usedIds, toolVars, procVars>>

PerRequestNext ==
    \/ \E r \in Reqs, h \in HeaderValues, b \in Bodies : PerRequestPostArrive(r, h, b)
    \/ \E r \in Reqs : PerRequestConnectResolves(r)
    \/ \E r \in Reqs : PerRequestConnectRejects(r)
    \/ \E r \in Reqs : PerRequestTransportThrows(r)
    \/ \E r \in Reqs : PerRequestTransportRejects(r)
    \/ \E r \in Reqs : PerRequestTransportDispatch(r)
    \/ \E r \in Reqs : PerRequestTransportThrowsLate(r)

PerRequestSpec == Constructed /\ [][PerRequestNext]_allVars

TypeOK ==
    /\ DOMAIN transports \subseteq usedIds
    /\ \A k \in DOMAIN transports : transports[k] \in TransportIds
    /\ serverTransport \in TransportIds \cup {NoTransport}
    /\ usedIds \subseteq SessionIds
    /\ \A r \in Reqs : /\ reqs[r].method \in Methods
                       /\ reqs[r].body \in Bodies
                       /\ reqs[r].hdr \in HeaderValues
                       /\ reqs[r].tr \in TransportIds \cup {NoTransport}

\* =================================================================== claims
\* A request that has reached its route.
Arrival(r) == reqs[r].pc # "idle"

\* The step in which request r reaches its route.
Arrives(r) == reqs[r].pc = "idle" /\ reqs'[r].pc # "idle"

\* A POST the route must refuse: no identifier and no initialize request, or an
\* identifier that was not in the session map when the request arrived.
RefusedPost(q) ==
    /\ q.method = "POST"
    /\ \/ ~Truthy(q.hdr) /\ ~IsInitializeRequest(q.body)
       \/ Truthy(q.hdr) /\ ~q.known

\* C1: a POST /mcp with no session identifier that is not an initialize request,
\* or with an identifier that is not in the session map (whatever its body), is
\* answered 400 by the route itself, not by the protocol layer, and the step
\* leaves the session map, the transport objects and the Server's connection
\* unchanged.
C1_RefusedPostIs400 ==
    /\ [](\A r \in Reqs : Arrival(r) /\ RefusedPost(reqs[r]) =>
            /\ reqs[r].pc = "done"
            /\ reqs[r].status = 400
            /\ reqs[r].by = "route"
            /\ reqs[r].tr = NoTransport
            /\ ~tobj[r].created)
    /\ [][\A r \in Reqs : Arrives(r) /\ RefusedPost(reqs'[r]) =>
            UNCHANGED <<transports, tobj, serverTransport>>]_vars

C1_Witness ==
    /\ \E r \in Reqs : /\ reqs[r].method = "POST" /\ reqs[r].pc = "done"
                       /\ Truthy(reqs[r].hdr) /\ ~reqs[r].known
                       /\ IsInitializeRequest(reqs[r].body)
                       /\ reqs[r].status = 400
    /\ \E r \in Reqs : /\ reqs[r].method = "POST" /\ reqs[r].pc = "done"
                       /\ ~Truthy(reqs[r].hdr)
                       /\ ~IsInitializeRequest(reqs[r].body)
                       /\ reqs[r].status = 400

\* A POST that asks for a new session: no identifier and an initialize request.
InitPost(q) ==
    q.method = "POST" /\ ~Truthy(q.hdr) /\ IsInitializeRequest(q.body)

\* The session of transport t is registered and has not been torn down.
Live(t) == tobj[t].initialized /\ ~tobj[t].sessionClosed /\ ~tobj[t].closed

\* C2: a POST /mcp with no session identifier and an initialize body constructs
\* a new transport; once that transport is initialized its identifier is one
\* randomUUID() generated, the session map maps that identifier to exactly that
\* transport for as long as the session is not torn down, and once the
\* transport has closed that same key is gone from the map.
C2_InitCreatesAndRegisters ==
    /\ \A r \in Reqs : Arrival(r) /\ InitPost(reqs[r]) =>
            tobj[r].created /\ reqs[r].tr = r
    /\ \A t \in TransportIds : tobj[t].initialized =>
            /\ tobj[t].sessionId \in usedIds
            /\ Live(t) => /\ tobj[t].sessionId \in DOMAIN transports
                          /\ transports[tobj[t].sessionId] = t
            /\ tobj[t].closed => tobj[t].sessionId \notin DOMAIN transports

C2_Witness ==
    \E r \in Reqs : /\ InitPost(reqs[r]) /\ Live(r)
                    /\ tobj[r].sessionId \in DOMAIN transports
                    /\ transports[tobj[r].sessionId] = r

\* C3: a POST /mcp whose identifier is in the session map is handed to the
\* transport registered under that identifier; the routing step constructs no
\* transport, does not connect the Server again and leaves the map unchanged.
C3_KnownPostIsRouted ==
    /\ [](\A r \in Reqs :
            Arrival(r) /\ reqs[r].method = "POST" /\ Truthy(reqs[r].hdr) /\ reqs[r].known =>
               /\ ~tobj[r].created
               /\ reqs[r].tr # NoTransport
               /\ tobj[reqs[r].tr].sessionId = reqs[r].hdr)
    /\ [][\A r \in Reqs :
            Arrives(r) /\ reqs'[r].method = "POST" /\ Truthy(reqs'[r].hdr) /\ reqs'[r].known =>
               /\ reqs'[r].pc = "handling"
               /\ reqs'[r].tr = transports[reqs'[r].hdr]
               /\ UNCHANGED <<transports, tobj, serverTransport>>]_vars

C3_Witness ==
    \E r \in Reqs : /\ reqs[r].method = "POST" /\ reqs[r].known
                    /\ reqs[r].pc = "done" /\ reqs[r].status = 200
                    /\ reqs[r].tr # r

\* A GET or DELETE the route must refuse: no identifier, or one that was not in
\* the session map when the request arrived.
RefusedByGuard(q) == ~Truthy(q.hdr) \/ ~q.known

\* C4: a GET /mcp whose identifier is absent or not in the session map is
\* answered 400 by the route, and no step of a GET request, refused or
\* accepted, adds an entry to the session map.
C4_GetNeverCreates ==
    /\ [](\A r \in Reqs :
            Arrival(r) /\ reqs[r].method = "GET" /\ RefusedByGuard(reqs[r]) =>
               reqs[r].pc = "done" /\ reqs[r].status = 400 /\ reqs[r].by = "route")
    /\ [][\A r \in Reqs :
            reqs'[r] # reqs[r] /\ reqs'[r].method = "GET" =>
               /\ DOMAIN transports' \subseteq DOMAIN transports
               /\ tobj' = tobj]_vars

C4_Witness ==
    /\ \E r \in Reqs : /\ reqs[r].method = "GET" /\ Truthy(reqs[r].hdr)
                       /\ ~reqs[r].known /\ reqs[r].status = 400
    /\ \E r \in Reqs : /\ reqs[r].method = "GET" /\ reqs[r].known
                       /\ reqs[r].status = 200

\* C5: a DELETE /mcp whose identifier is absent or unknown is answered 400 by
\* the route and changes nothing; with a known identifier it is handed to the
\* transport of that session, and once the teardown has completed (the
\* transport answered 200) the identifier is not in the session map.
C5_DeleteTearsDown ==
    /\ [](\A r \in Reqs : Arrival(r) /\ reqs[r].method = "DELETE" =>
            /\ RefusedByGuard(reqs[r]) =>
                  /\ reqs[r].pc = "done" /\ reqs[r].status = 400
                  /\ reqs[r].by = "route" /\ reqs[r].tr = NoTransport
            /\ ~RefusedByGuard(reqs[r]) =>
                  /\ reqs[r].tr # NoTransport
                  /\ tobj[reqs[r].tr].sessionId = reqs[r].hdr
            /\ reqs[r].pc = "done" /\ reqs[r].status = 200 =>
                  /\ reqs[r].hdr \notin DOMAIN transports
                  /\ tobj[reqs[r].tr].closed)
    /\ [][\A r \in Reqs :
            Arrives(r) /\ reqs'[r].method = "DELETE" /\ RefusedByGuard(reqs'[r]) =>
               UNCHANGED <<transports, tobj, serverTransport, usedIds>>]_vars

C5_Witness ==
    \E r \in Reqs : /\ reqs[r].method = "DELETE" /\ reqs[r].known
                    /\ reqs[r].pc = "done" /\ reqs[r].status = 200
                    /\ reqs[r].hdr \notin DOMAIN transports


\* C6: the session lifecycle.  An initialization POST that is answered 200 has
\* a session identifier that was freshly generated (never returned before, not
\* in the map, held by no other transport); a POST carrying an identifier that
\* is in the map is not refused by the route; a GET carrying an identifier
\* whose DELETE has completed is answered 400.
C6_SessionLifecycle ==
    /\ [](\A r \in Reqs :
            /\ InitPost(reqs[r]) /\ reqs[r].pc = "done" /\ reqs[r].status = 200 =>
                  /\ tobj[r].sessionId \in SessionIds
                  /\ \A t \in TransportIds \ {r} : tobj[t].sessionId # tobj[r].sessionId
            /\ Arrival(r) /\ reqs[r].method = "POST" /\ Truthy(reqs[r].hdr) /\ reqs[r].known =>
                  ~(reqs[r].status = 400 /\ reqs[r].by = "route")
            /\ Arrival(r) /\ reqs[r].method = "GET" /\ reqs[r].expired =>
                  reqs[r].pc = "done" /\ reqs[r].status = 400)
    /\ [][\A t \in TransportIds :
            tobj[t].sessionId = NoSession /\ tobj'[t].sessionId # NoSession =>
               /\ tobj'[t].sessionId \notin usedIds
               /\ tobj'[t].sessionId \notin DOMAIN transports]_vars

C6_Witness ==
    \E r1, r2, r3 \in Reqs :
        /\ InitPost(reqs[r1]) /\ reqs[r1].pc = "done" /\ reqs[r1].status = 200
        /\ reqs[r2].method = "DELETE" /\ reqs[r2].hdr = tobj[r1].sessionId
        /\ reqs[r2].pc = "done" /\ reqs[r2].status = 200
        /\ reqs[r3].method = "GET" /\ reqs[r3].hdr = tobj[r1].sessionId
        /\ reqs[r3].expired /\ reqs[r3].status = 400

\* C7: two initialization POSTs in flight at once, under every interleaving of
\* their steps, end with two distinct identifiers; while neither session is
\* torn down both are in the session map, each resolving to its own transport.
\* No step overwrites an entry of the map, and a registration removes none.
C7_ConcurrentInits ==
    /\ [](\A r1, r2 \in Reqs :
            /\ r1 # r2 /\ InitPost(reqs[r1]) /\ InitPost(reqs[r2])
            /\ tobj[r1].initialized /\ tobj[r2].initialized
            => /\ tobj[r1].sessionId # tobj[r2].sessionId
               /\ Live(r1) /\ Live(r2) =>
                     /\ MapGet(transports, tobj[r1].sessionId) = r1
                     /\ MapGet(transports, tobj[r2].sessionId) = r2)
    /\ [][\A k \in DOMAIN transports :
            /\ k \in DOMAIN transports' => transports'[k] = transports[k]
            /\ (\E t \in TransportIds : tobj'[t].initialized /\ ~tobj[t].initialized)
                  => k \in DOMAIN transports']_vars

C7_Witness ==
    \E r1, r2 \in Reqs :
        /\ r1 # r2 /\ InitPost(reqs[r1]) /\ InitPost(reqs[r2])
        /\ reqs[r1].pc = "accepted" /\ reqs[r2].pc = "accepted"
        /\ tobj[r1].sessionId # tobj[r2].sessionId
        /\ MapGet(transports, tobj[r1].sessionId) = r1
        /\ MapGet(transports, tobj[r2].sessionId) = r2

\* C8: at most one live session object per identifier; a request (POST, GET or
\* DELETE) carrying an identifier that is unknown or expired is answered 400
\* and constructs nothing; an entry enters the session map only in the
\* initialization of a transport constructed by an initialization POST.
C8_OneSessionPerId ==
    /\ [](/\ \A k \in SessionIds :
                Cardinality({t \in TransportIds : Live(t) /\ tobj[t].sessionId = k}) <= 1
          /\ \A r \in Reqs :
                Arrival(r) /\ Truthy(reqs[r].hdr) /\ (~reqs[r].known \/ reqs[r].expired) =>
                   /\ reqs[r].pc = "done" /\ reqs[r].status = 400
                   /\ ~tobj[r].created)
    /\ [][\A k \in DOMAIN transports' \ DOMAIN transports :
            \E r \in Reqs : /\ InitPost(reqs[r])
                            /\ reqs[r].pc = "handling" /\ reqs'[r].pc = "accepted"
                            /\ transports'[k] = r
                            /\ tobj'[r].sessionId = k]_vars

C8_Witness ==
    /\ \E r \in Reqs : /\ reqs[r].method = "POST" /\ reqs[r].expired
                       /\ IsInitializeRequest(reqs[r].body) /\ reqs[r].status = 400
    /\ \E t \in TransportIds : tobj[t].closed

\* C9: sessions are independent.  Every live session is registered in the
\* session map under its own identifier, and a message that the transport of a
\* live session handed to the Server is answered on that transport.
C9_SessionsIndependent ==
    /\ \A t \in TransportIds : Live(t) => MapGet(transports, tobj[t].sessionId) = t
    /\ \A r \in Reqs :
          reqs[r].answer # "none" /\ Live(reqs[r].tr) => reqs[r].answer = "own"

\* C10: an exception raised while a POST, GET or DELETE is handled never leaves
\* the route handler; raised before the response was started it ends in a 500,
\* raised after it the response is left as it was; the step leaves the session
\* map, the transports and the other requests untouched, and the listener goes
\* on taking requests.
C10_ExceptionsCaught ==
    /\ [](/\ ProcessAlive
          /\ \A r \in Reqs :
                /\ reqs[r].threw = "before" =>
                      reqs[r].pc = "done" /\ reqs[r].status = 500 /\ reqs[r].by = "route"
                /\ reqs[r].threw = "after" =>
                      reqs[r].pc = "done" /\ reqs[r].status = 200 /\ reqs[r].by = "transport")
    /\ [][\A r \in Reqs :
            reqs[r].threw = "no" /\ reqs'[r].threw # "no" =>
               /\ transports' = transports
               /\ tobj' = tobj
               /\ \A s \in Reqs \ {r} : reqs'[s] = reqs[s]]_vars

C10_Witness ==
    /\ \E r \in Reqs : reqs[r].method = "GET" /\ reqs[r].threw = "before"
    /\ \E r \in Reqs : reqs[r].method = "POST" /\ reqs[r].threw = "after"
    /\ \E r \in Reqs : /\ reqs[r].afterThrow /\ reqs[r].known
                       /\ reqs[r].pc = "done" /\ reqs[r].status = 200

\* ------------------------------------------------- claims on the tool handlers
\* The names the list-tools handler announces.
Registered(name) == \E i \in 1..Len(Catalog) : Catalog[i] = name

\* The tools whose case runs a validator: all but the clock tool.
HasValidator(name) == Registered(name) /\ name # "get_current_time_in_rfc3339"

\* A call-tool request is being handled or has been answered.
Calling == call.kind = "call"

\* C11: a call-tool request whose tool name is not one of the registered tools
\* goes from Identify directly to Reject and is answered with a
\* method-not-found error; no validator runs, the upstream client is not
\* invoked and no GET is issued.
C11_UnknownToolRejected ==
    Calling /\ ~Registered(call.name) =>
        /\ call.pc = "done"
        /\ call.stages = <<"Receive", "Identify", "Reject", "Respond">>
        /\ call.result.kind = "error"
        /\ call.result.code = "MethodNotFound"
        /\ call.result.about = call.name
        /\ ~call.validatorRan /\ ~call.invoked /\ call.gets = 0

C11_Witness ==
    /\ Calling /\ call.name = UnknownTool /\ call.args.given
    /\ call.pc = "done" /\ call.result.code = "MethodNotFound"

\* C12: for every tool that has a validator, Validate comes before Invoke.  The
\* validator runs on every call; when it rejects the argument bag the request
\* ends in Reject with an invalid-parameters error that names the tool and the
\* upstream client is not invoked; the upstream client is invoked only when the
\* validator has accepted, and then after it.
C12_ValidateBeforeInvoke ==
    Calling /\ HasValidator(call.name) =>
        LET ok == IsValidArgs(call.name, RawArgs(call.args))
        IN  /\ call.validatorRan
            /\ call.accepted = ok
            /\ Len(call.stages) >= 3 /\ call.stages[3] = "Validate"
            /\ ~ok => /\ call.pc = "done"
                      /\ call.stages = <<"Receive", "Identify", "Validate",
                                         "Reject", "Respond">>
                      /\ call.result.kind = "error"
                      /\ call.result.code = "InvalidParams"
                      /\ call.result.about = call.name
                      /\ ~call.invoked /\ call.gets = 0
            /\ call.invoked => ok /\ call.stages[4] = "Invoke"
            /\ ok => call.invoked

C12_Witness ==
    /\ Calling /\ call.name = "get_prices"
    /\ call.args.present = {"fromStation", "toStation"} /\ call.args.bad = {"toStation"}
    /\ call.pc = "done" /\ call.result.code = "InvalidParams" /\ ~call.invoked

\* C13: for every tool name and every argument bag, a missing one included, no
\* error leaves the call-tool handler: when the handler is over it has returned
\* an envelope, a success or an error, whether the error came from the unknown
\* tool branch, from validation or from the upstream client.
C13_HandlerNeverThrows ==
    Calling =>
        /\ ~call.threw
        /\ call.pc \in {"awaiting", "done"}
        /\ call.pc = "done" => call.result.kind \in {"success", "error"}
        /\ call.pc = "done" /\ (~Registered(call.name) \/ call.failure # "none"
                                \/ (call.validatorRan /\ ~call.accepted)) =>
              call.result.kind = "error"

C13_Witness ==
    /\ Calling /\ ~call.args.given /\ call.name = "get_disruptions"
    /\ call.failure = "network" /\ call.pc = "done" /\ call.result.kind = "error"

\* C14: every method of the upstream client checks the credential before
\* anything else, on each call: with an empty key no GET is ever issued and a
\* call that reaches the client ends in an internal-error envelope that names
\* the missing NS_API_KEY.
C14_CredentialCheckedFirst ==
    Calling /\ apiKey = NoKey =>
        /\ call.gets = 0 /\ call.query = {} /\ call.pc # "awaiting"
        /\ call.invoked =>
              /\ call.pc = "done"
              /\ call.stages = <<"Receive", "Identify", "Validate", "Invoke",
                                 "Reject", "Respond">>
              /\ call.result.kind = "error"
              /\ call.result.code = "InternalError"
              /\ call.result.about = "NS_API_KEY"

C14_Witness ==
    /\ Calling /\ apiKey = NoKey /\ served = MaxCalls
    /\ call.name = "get_disruptions"
    /\ call.args.present = {"isActive"} /\ call.args.bad = {}
    /\ call.invoked /\ call.gets = 0 /\ call.result.about = "NS_API_KEY"

\* C15: for every method of the upstream client, the query parameters of the
\* GET are exactly the properties present in the validated argument bag: every
\* one that is present is sent, every one that is absent is left out (so a
\* get_departures call that carries uicCode only sends uicCode).
C15_PresentFieldsAreSent ==
    Calling /\ call.gets > 0 => call.query = RawArgs(call.args).present

\* C16: a get_current_time_in_rfc3339 call returns a success envelope whose
\* payload is {datetime, timezone: 'Europe/Amsterdam'}; no validator runs and
\* the upstream client is not invoked, whatever the arguments and whether or
\* not the key is configured.
C16_ClockToolIsLocal ==
    Calling /\ call.name = "get_current_time_in_rfc3339" =>
        /\ call.pc = "done"
        /\ call.stages = <<"Receive", "Identify", "Format", "Respond">>
        /\ call.result.kind = "success"
        /\ call.result.payload =
              [datetime |-> "toISOString", timezone |-> "Europe/Amsterdam"]
        /\ ~call.validatorRan /\ ~call.invoked /\ call.gets = 0

C16_Witness ==
    /\ Calling /\ call.name = "get_current_time_in_rfc3339" /\ apiKey = NoKey
    /\ call.args.bad # {}
    /\ call.result.kind = "success"

\* C17: every list-tools request, whatever was requested before, is answered
\* with the same catalog of eight tools with pairwise different names; the
\* handler runs no validator, calls no upstream method and changes nothing
\* but its own response.
C17_ListToolsStateless ==
    /\ [](call.kind = "list" =>
            /\ call.pc = "done"
            /\ call.tools = Catalog
            /\ Len(call.tools) = 8
            /\ \A i, j \in 1..Len(call.tools) :
                  call.tools[i] = call.tools[j] => i = j
            /\ ~call.validatorRan /\ ~call.invoked /\ call.gets = 0)
    /\ [][call'.kind = "list" /\ call.kind # "list" =>
            /\ apiKey' = apiKey
            /\ UNCHANGED <<vars, procVars>>]_allVars

C17_Witness ==
    /\ call.kind = "list" /\ served = MaxCalls /\ apiKey = NoKey
    /\ Len(call.tools) = 8

\* C18: a call-tool request issues at most one upstream GET; when that GET
\* fails (no response, or a non-2xx response) the request ends in Reject with
\* an error envelope and the GET is not issued again.
C18_NoRetry ==
    Calling =>
        /\ call.gets <= 1
        /\ call.failure # "none" =>
              /\ call.pc = "done"
              /\ call.gets = 1
              /\ call.stages = <<"Receive", "Identify", "Validate", "Invoke",
                                 "Reject", "Respond">>
              /\ call.result.kind = "error"
              /\ call.result.code = "InternalError"
              /\ call.result.about = call.failure

C18_Witness ==
    /\ Calling /\ call.name = "get_arrivals" /\ call.failure = "http"
    /\ call.pc = "done" /\ call.gets = 1 /\ call.result.kind = "error"

\* ------------------------------------------------ claims on the session map
\* The session of transport t is being removed in this step: its
\* session-closed callback or its close event fires.
Closes(t) ==
    \/ ~tobj[t].sessionClosed /\ tobj'[t].sessionClosed
    \/ ~tobj[t].closed /\ tobj'[t].closed

\* The transport t is initialized in this step.
Initializes(t) == ~tobj[t].initialized /\ tobj'[t].initialized

\* The map after the step is the map before it without key k.
Removed(k) ==
    /\ DOMAIN transports' = DOMAIN transports \ {k}
    /\ \A x \in DOMAIN transports' : transports'[x] = transports[x]

\* The map after the step is the map before it with key k set to t.
Registers(k, t) ==
    /\ DOMAIN transports' = DOMAIN transports \cup {k}
    /\ transports'[k] = t
    /\ \A x \in DOMAIN transports \ {k} : transports'[x] = transports[x]

\* C19: when the session-closed callback or the close event of a session's
\* transport fires, the key of that session, and no other, leaves the session
\* map and every other entry stays as it was; the map changes in no step but
\* the registration of a transport that is being initialized and the removal
\* of a session that is being closed or terminated.
C19_MapMutatedOnlyByLifecycle ==
    [][/\ \A t \in TransportIds : Closes(t) => Removed(tobj[t].sessionId)
       /\ transports' # transports =>
             \E t \in TransportIds :
                \/ Initializes(t) /\ Registers(tobj'[t].sessionId, t)
                \/ Closes(t) /\ Removed(tobj[t].sessionId)]_vars

C19_Witness ==
    \E t, u \in TransportIds :
        /\ t # u
        /\ tobj[t].sessionClosed /\ tobj[t].closed
        /\ tobj[t].sessionId \notin DOMAIN transports
        /\ Live(u) /\ MapGet(transports, tobj[u].sessionId) = u

\* ------------------------------------------------ claims on the signal handlers
\* C20: on SIGINT or SIGTERM the handler calls the protocol Server's close
\* first, and process.exit(0) runs only in a handler whose close has
\* completed.  A step of a signal handler removes from the session map nothing
\* but what the close handler of the transport the Server is connected to
\* removes; it clears no other session.
C20_CloseThenExit ==
    /\ [](/\ \A n \in SignalNames :
                /\ sig[n].pc # "idle" => sig[n].closeCalled
                /\ sig[n].pc = "exited" => sig[n].closeCalled /\ sig[n].closeDone
          /\ proc = "exited" =>
                \E n \in SignalNames : sig[n].pc = "exited" /\ sig[n].closeDone)
    /\ [][sig' # sig =>
            /\ \A k \in DOMAIN transports :
                  transports[k] # serverTransport =>
                     k \in DOMAIN transports' /\ transports'[k] = transports[k]
            /\ DOMAIN transports' \subseteq DOMAIN transports
            /\ (proc' = "exited" => transports' = transports)]_allVars

C20_Witness ==
    /\ proc = "exited"
    /\ \E t, u \in TransportIds :
          /\ t # u
          /\ tobj[t].closed /\ ~tobj[t].sessionClosed
          /\ Live(u) /\ MapGet(transports, tobj[u].sessionId) = u

\* ------------------------------------------------ claims on the map's shape
\* C21: in every reachable state every key of the session map maps to a
\* transport that has been constructed and initialized and whose own sessionId
\* is that key; no transport is registered under two keys.
C21_KeysAreOwnIds ==
    /\ \A k \in DOMAIN transports :
          /\ transports[k] \in TransportIds
          /\ tobj[transports[k]].created /\ tobj[transports[k]].initialized
          /\ tobj[transports[k]].sessionId = k
    /\ \A j, k \in DOMAIN transports : transports[j] = transports[k] => j = k

C21_Witness ==
    \E j, k \in DOMAIN transports :
        /\ j # k /\ transports[j] # transports[k]
        /\ tobj[transports[j]].sessionId = j
        /\ tobj[transports[k]].sessionId = k

\* The identifier k was registered and has been removed from the session map.
RemovedId(k) ==
    /\ k \notin DOMAIN transports
    /\ \E t \in TransportIds : tobj[t].initialized /\ tobj[t].sessionId = k

\* Request r carried an identifier the server had generated that was no longer
\* in the session map when r arrived.
CarriesRemovedId(r) ==
    Arrival(r) /\ reqs[r].hdr \in SessionIds /\ ~reqs[r].known

\* C22: an identifier that has been removed from the session map is never in
\* the map again, and a request that carries it (POST with any body, GET or
\* DELETE) is answered 400 by the route, which constructs no transport for it.
C22_RemovedStaysRemoved ==
    /\ [](\A r \in Reqs : CarriesRemovedId(r) =>
            /\ reqs[r].pc = "done"
            /\ reqs[r].status = 400
            /\ reqs[r].by = "route"
            /\ reqs[r].tr = NoTransport
            /\ ~tobj[r].created)
    /\ [][\A k \in SessionIds : RemovedId(k) => k \notin DOMAIN transports']_vars

C22_Witness ==
    \E r \in Reqs, t \in TransportIds :
        /\ tobj[t].closed /\ tobj[t].sessionId = reqs[r].hdr
        /\ CarriesRemovedId(r)
        /\ reqs[r].method = "POST" /\ IsInitializeRequest(reqs[r].body)
        /\ reqs[r].status = 400
        /\ RemovedId(reqs[r].hdr)

\* ------------------------------------------- claims on catalog and dispatcher
\* C23: the catalog and the dispatcher agree.  A call of a name the list-tools
\* handler announces runs a case of the switch and is never answered with
\* method-not-found; a call of any other name is answered with
\* method-not-found.
C23_CatalogMatchesDispatcher ==
    /\ \A i \in 1..Len(Catalog) : Branch(Catalog[i]) = Catalog[i]
    /\ Calling =>
          /\ Registered(call.name) =>
                /\ call.result.code # "MethodNotFound"
                /\ call.stages # <<"Receive", "Identify", "Reject", "Respond">>
                /\ call.pc = "done" => call.result.kind \in {"success", "error"}
          /\ ~Registered(call.name) =>
                call.pc = "done" /\ call.result.code = "MethodNotFound"

C23_Witness ==
    /\ Calling /\ call.name = Catalog[Len(Catalog)] /\ served = MaxCalls
    /\ call.pc = "done" /\ call.result.kind = "success"
    /\ call.result.payload = UpstreamData(call.name)

\* ------------------------------------------------ claims on the responses
\* C24: every request to /mcp is answered at most once: on no path through a
\* route handler, the path taken after the transport has started the response
\* included, does the handler write a status or a body to a response whose
\* headers are already sent.
C24_AnsweredAtMostOnce ==
    \A r \in Reqs : ~reqs[r].lateWrite /\ ~reqs[r].escaped

====
